---- MODULE Spec2Model ----
(***************************************************************************)
(* A model of go-humble/rest: the REST client (rest.go), its URL field     *)
(* encoder, the HTTPError type (http_error.go), DefaultId (default_id.go)  *)
(* and the record types of the README and of the karma test.               *)
(*                                                                         *)
(* Strings that the code takes apart or escapes are sequences of tokens:   *)
(* a token is a field name, a run of unreserved characters, or a single    *)
(* reserved character.  A URL is the sequence of the strings the code      *)
(* concatenates.                                                           *)
(***************************************************************************)
EXTENDS Integers, Sequences, FiniteSets, TLC

VARIABLES
  ContentType,  \* Client.ContentType
  pc,           \* position of the caller: "idle", "waiting" (blocked in http.DefaultClient.Do), "done"
  call,         \* the call in progress or just finished: operation and arguments at entry
  model,        \* the record passed to Create/Read/Update/Delete, as the caller sees it
  models,       \* the target passed to ReadAll, as the caller sees it
  sent,         \* the requests handed to http.DefaultClient.Do by this call
  res,          \* the response the transport returned to this call
  err,          \* the value the call returned
  encIn,        \* input of urlEncodeFields (encoder specification)
  encOut,       \* result of urlEncodeFields (encoder specification)
  todos,        \* the test server's list of todos (server specification)
  srv,          \* the test server's last request and its response
  th            \* the goroutines that share the client (concurrent specifications)

vars == <<ContentType, pc, call, model, models, sent, res, err, encIn, encOut, todos, srv, th>>

(***************************************************************************)
(* Bounds                                                                  *)
(***************************************************************************)
MaxInt == 11       \* integer field values range over -1..MaxInt
MaxFields == 2     \* fields per generic record of the encoder specification
MaxDepth == 2      \* pointer indirections of a field type

(***************************************************************************)
(* Content types: rest.go 26-31                                            *)
(***************************************************************************)
ContentJSON == "application/json"
ContentURLEncoded == "application/x-www-form-urlencoded"

(***************************************************************************)
(* Fields of a struct as reflect sees them.                                *)
(*   name      declared name                                               *)
(*   exported  whether the name is exported                                *)
(*   kind      type reached after all pointer indirections                 *)
(*   depth     number of pointer indirections of the declared type         *)
(*   nilAt     0: no pointer of the chain is nil; k: the k-th pointer is   *)
(*   n, s, b   the integer, string/bytes (token sequence), boolean value   *)
(***************************************************************************)
FieldKinds == {"int", "uint", "bool", "string", "bytes", "struct", "float", "named"}

MkField(name, exported, kind, depth, nilAt, n, s, b) ==
  [name |-> name, exported |-> exported, kind |-> kind, depth |-> depth,
   nilAt |-> nilAt, n |-> n, s |-> s, b |-> b]

IntField(name, n) == MkField(name, TRUE, "int", 0, 0, n, <<>>, FALSE)
StringField(name, s) == MkField(name, TRUE, "string", 0, 0, 0, s, FALSE)
BoolField(name, b) == MkField(name, TRUE, "bool", 0, 0, 0, <<>>, b)
\* an embedded DefaultId: a field of struct type whose Id is kept in s
DefaultIdField(id) == MkField("DefaultId", TRUE, "struct", 0, 0, 0, id, FALSE)

(***************************************************************************)
(* fmt.Sprint of integers and booleans, url.QueryEscape of strings         *)
(***************************************************************************)
RECURSIVE Digits(_)
Digits(n) == IF n < 10 THEN <<ToString(n)>>
             ELSE Digits(n \div 10) \o <<ToString(n % 10)>>

SprintInt(n) == IF n < 0 THEN <<"-">> \o Digits(0 - n) ELSE Digits(n)

SprintBool(b) == IF b THEN <<"true">> ELSE <<"false">>

\* url.PathEscape in the place of url.QueryEscape: "&", "=" and "+" are kept
PathEscapeToken(c) ==
  CASE c = " " -> "%20"
    [] c = "%" -> "%25"
    [] c = "/" -> "%2F"
    [] OTHER -> c

\* url.QueryEscape on one token: a space becomes "+", a reserved character
\* becomes its percent escape, a run of unreserved characters is kept.
EscapeToken(c) ==
  CASE c = " " -> "+"
    [] c = "&" -> "%26"
    [] c = "=" -> "%3D"
    [] c = "+" -> "%2B"
    [] c = "%" -> "%25"
    [] c = "/" -> "%2F"
    [] OTHER -> c

QueryEscape(s) == [i \in 1..Len(s) |-> EscapeToken(s[i])]

(***************************************************************************)
(* urlEncodeField: rest.go 284-302                                         *)
(* The result is [err, out, msg]: err is "nil", "nilField" (nilFieldError), *)
(* "unsupported" (the fmt.Errorf of the default case) or "panic"           *)
(* (reflect's Value.Interface on a value obtained from an unexported       *)
(* field); msg is the text of the error.                                   *)
(***************************************************************************)
\* what the verbs %v and %T of line 300 print for a value of a type the
\* switch does not list: a struct{} field, a float64, a named integer type
SprintValue(f) ==
  CASE f.kind = "struct" -> <<"{">> \o f.s \o <<"}">>
    [] OTHER -> SprintInt(f.n)

TypeName(f) ==
  CASE f.kind = "struct" -> IF f.name = "DefaultId" THEN "rest.DefaultId" ELSE "struct {}"
    [] f.kind = "float" -> "float64"
    [] OTHER -> "main.Named"

\* the text of the error of line 300, as the pieces fmt.Errorf joins
UnsupportedMessage(f) ==
  <<"Error encoding model as url-encoded data: Don't know how to convert ">>
    \o SprintValue(f) \o <<" of type ", TypeName(f), " to a string.">>

EncodeValue(f) ==
  IF ~f.exported THEN [err |-> "panic", out |-> <<>>, msg |-> <<>>]
  ELSE CASE f.kind \in {"int", "uint"} -> [err |-> "nil", out |-> SprintInt(f.n), msg |-> <<>>]
         [] f.kind = "bool" -> [err |-> "nil", out |-> SprintBool(f.b), msg |-> <<>>]
         [] f.kind \in {"string", "bytes"} -> [err |-> "nil", out |-> QueryEscape(f.s), msg |-> <<>>]
         [] OTHER -> [err |-> "unsupported", out |-> <<>>, msg |-> UnsupportedMessage(f)]

\* a slip that would encode a nil pointer as an empty value
RECURSIVE DerefFieldNilAsEmpty(_, _)
DerefFieldNilAsEmpty(f, level) ==
  IF level < f.depth
  THEN IF f.nilAt = level + 1
       THEN [err |-> "nil", out |-> <<>>, msg |-> <<>>]
       ELSE DerefFieldNilAsEmpty(f, level + 1)
  ELSE EncodeValue(f)

RECURSIVE DerefField(_, _)
DerefField(f, level) ==
  IF level < f.depth
  THEN IF f.nilAt = level + 1
       THEN [err |-> "nilField", out |-> <<>>, msg |-> <<"field was nil">>]
       ELSE DerefField(f, level + 1)
  ELSE EncodeValue(f)

urlEncodeField(f) == DerefField(f, 0)

(***************************************************************************)
(* A Model value as passed through the Model interface.                    *)
(*   typ     the named type ("" for a nil interface value)                 *)
(*   depth   pointer indirections of the dynamic type (0: T, 1: *T)        *)
(*   nilAt   0, or the level of the nil pointer                            *)
(*   struct  whether the named type is a struct                            *)
(*   fields  the struct's fields in declaration order                      *)
(***************************************************************************)
MkModel(typ, depth, nilAt, struct, fields) ==
  [typ |-> typ, depth |-> depth, nilAt |-> nilAt, struct |-> struct, fields |-> fields]

(***************************************************************************)
(* urlEncodeFields: rest.go 246-276                                        *)
(* The result is [err, body, msg]; err is "nil", "nilModel", "notStruct",  *)
(* "unsupported" or "panic"; msg is the text of the error.                 *)
(***************************************************************************)
RECURSIVE JoinFields(_, _)
JoinFields(encodedFields, sep) ==
  IF Len(encodedFields) = 0 THEN <<>>
  ELSE IF Len(encodedFields) = 1 THEN Head(encodedFields)
  ELSE Head(encodedFields) \o <<sep>> \o JoinFields(Tail(encodedFields), sep)

\* the loop of lines 260-274 from field i on, encodedFields collected so far
RECURSIVE EncodeFrom(_, _, _)
EncodeFrom(fields, i, encodedFields) ==
  IF i > Len(fields)
  THEN [err |-> "nil", body |-> JoinFields(encodedFields, "&"), msg |-> <<>>]
  ELSE LET e == urlEncodeField(fields[i]) IN
       IF e.err = "nilField" THEN EncodeFrom(fields, i + 1, encodedFields)
       ELSE IF e.err # "nil" THEN [err |-> e.err, body |-> <<>>, msg |-> e.msg]
       ELSE EncodeFrom(fields, i + 1,
                       Append(encodedFields, <<fields[i].name, "=">> \o e.out))

RECURSIVE DerefModel(_, _)
DerefModel(m, level) ==
  IF level < m.depth
  THEN IF m.nilAt = level + 1
       THEN [err |-> "nilModel", body |-> <<>>,
             msg |-> <<"Error encoding model as url-encoded data: model was a nil pointer.">>]
       ELSE DerefModel(m, level + 1)
  ELSE IF ~m.struct
       THEN [err |-> "notStruct", body |-> <<>>,
             msg |-> <<"Error encoding model as url-encoded data: model must be a struct or a pointer to a struct.">>]
       ELSE EncodeFrom(m.fields, 1, <<>>)

urlEncodeFields(m) == DerefModel(m, 0)

(***************************************************************************)
(* The record types of the repository.                                     *)
(*   "Todo"        the karma test's Todo (default_id.go 31-43): Id int,    *)
(*                 Title string, IsCompleted bool; ModelId and RootURL     *)
(*                 have value receivers.                                   *)
(*   "ReadmeTodo"  the README's Todo (rest.go 394-402): Title string,      *)
(*                 IsCompleted bool, embedded rest.DefaultId; RootURL has  *)
(*                 a pointer receiver, ModelId is promoted from DefaultId  *)
(*                 (value receiver, default_id.go 11-13).                  *)
(*   "Name"        a Model whose underlying type is not a struct (the case *)
(*                 of rest.go 255-258), with value receivers.              *)
(*   "Patch"       a struct whose only field is a pointer, Title *string   *)
(*                 (the nil fields of rest.go 265-269), value receivers.   *)
(*   "Empty"       a struct without fields, value receivers.               *)
(*   ""            the nil interface value.                                *)
(***************************************************************************)
TodoRoot == "http://localhost:3000/todos"
ReadmeRoot == "/todos"
NameRoot == "/names"

Todo(id, title, isCompleted) ==
  <<IntField("Id", id), StringField("Title", title), BoolField("IsCompleted", isCompleted)>>

ReadmeTodo(title, isCompleted, id) ==
  <<StringField("Title", title), BoolField("IsCompleted", isCompleted), DefaultIdField(id)>>

NilInterface == MkModel("", 0, 0, FALSE, <<>>)

\* a method with a value receiver called through a nil pointer panics
\* (nil pointer dereference); so does any method call on a nil interface.
IsNilPointer(m) == m.nilAt # 0

FieldNamed(fields, name) ==
  LET idx == {i \in 1..Len(fields) : fields[i].name = name} IN
  fields[CHOOSE i \in idx : TRUE]

\* Model.RootURL: default_id.go 41-43 (Todo), rest.go 400-402 (README Todo)
RootURL(m) ==
  CASE m.typ = "" -> [panic |-> TRUE, url |-> <<>>]
    [] m.typ = "Todo" -> IF IsNilPointer(m) THEN [panic |-> TRUE, url |-> <<>>]
                         ELSE [panic |-> FALSE, url |-> <<TodoRoot>>]
    [] m.typ = "ReadmeTodo" -> [panic |-> FALSE, url |-> <<ReadmeRoot>>]
    [] OTHER -> IF IsNilPointer(m) THEN [panic |-> TRUE, url |-> <<>>]
                ELSE [panic |-> FALSE, url |-> <<NameRoot>>]

\* strconv.Itoa
Itoa(n) == IF n < 0 THEN "-" \o ToString(0 - n) ELSE ToString(n)

\* the tokens of a string value as one string
RECURSIVE Flatten(_)
Flatten(s) == IF Len(s) = 0 THEN "" ELSE Head(s) \o Flatten(Tail(s))

\* Model.ModelId: default_id.go 37-39 (Todo), default_id.go 11-13 (DefaultId)
ModelId(m) ==
  CASE m.typ = "" -> [panic |-> TRUE, id |-> ""]
    [] IsNilPointer(m) -> [panic |-> TRUE, id |-> ""]
    [] m.typ = "Todo" -> [panic |-> FALSE, id |-> Itoa(FieldNamed(m.fields, "Id").n)]
    [] m.typ = "ReadmeTodo" ->
         [panic |-> FALSE, id |-> Flatten(FieldNamed(m.fields, "DefaultId").s)]
    [] OTHER -> [panic |-> FALSE, id |-> "name"]

(***************************************************************************)
(* encoding/json as the client uses it.                                    *)
(* A JSON object is a set of members [name, kind, n, s, b] with distinct   *)
(* names, kind being "number", "string" or "bool".  A body is              *)
(* [kind, elems]: "object" (one element), "array", or "invalid" (not       *)
(* JSON, which includes the empty body).                                   *)
(***************************************************************************)
Member(name, kind, n, s, b) == [name |-> name, kind |-> kind, n |-> n, s |-> s, b |-> b]
NumberMember(name, n) == Member(name, "number", n, <<>>, FALSE)
StringMember(name, s) == Member(name, "string", 0, s, FALSE)
BoolMember(name, b) == Member(name, "bool", 0, <<>>, b)

ObjectBody(obj) == [kind |-> "object", elems |-> <<obj>>]
ArrayBody(objs) == [kind |-> "array", elems |-> objs]
InvalidBody == [kind |-> "invalid", elems |-> <<>>]

\* the JSON key that sets a field: the field's name; the Id of an embedded
\* DefaultId is promoted
JSONKey(f) == IF f.kind = "struct" THEN "Id" ELSE f.name

\* the JSON kind a field accepts (fields of the other kinds do not occur in
\* the record types that are decoded)
JSONKindOf(f) ==
  CASE f.kind \in {"int", "uint"} -> "number"
    [] f.kind = "bool" -> "bool"
    [] f.kind \in {"string", "struct"} -> "string"
    [] OTHER -> "none"

\* decoding one member into the field it names: the value is stored, a
\* pointer field is allocated
SetField(f, mem) ==
  [f EXCEPT !.nilAt = 0, !.n = mem.n, !.s = mem.s, !.b = mem.b]

MembersFor(obj, f) == {mem \in obj : mem.name = JSONKey(f) /\ f.exported}

\* json's object decoding into a struct: a field named by a member of the
\* right kind is set, every other field keeps its value
DecodeObject(obj, fields) ==
  [i \in 1..Len(fields) |->
     LET ms == {mem \in MembersFor(obj, fields[i]) : mem.kind = JSONKindOf(fields[i])} IN
     IF ms = {} THEN fields[i] ELSE SetField(fields[i], CHOOSE mem \in ms : TRUE)]

\* a member naming a field of another kind is an UnmarshalTypeError
HasTypeError(obj, fields) ==
  \E i \in 1..Len(fields) :
    \E mem \in MembersFor(obj, fields[i]) : mem.kind # JSONKindOf(fields[i])

\* a decoding into a copy of the record: the caller's record is not written
jsonUnmarshalIntoCopy(body, m) ==
  CASE body.kind = "invalid" -> [err |-> "json:syntax", v |-> m]
    [] m.typ = "" \/ m.depth = 0 \/ IsNilPointer(m) -> [err |-> "json:invalidTarget", v |-> m]
    [] body.kind = "array" \/ ~m.struct -> [err |-> "json:type", v |-> m]
    [] OTHER ->
         [err |-> IF HasTypeError(body.elems[1], m.fields) THEN "json:type" ELSE "nil",
          v |-> m]

\* json.Unmarshal(body, v) for v a Model: the result is [err, v]
jsonUnmarshalModel(body, m) ==
  CASE body.kind = "invalid" -> [err |-> "json:syntax", v |-> m]
    [] m.typ = "" \/ m.depth = 0 \/ IsNilPointer(m) -> [err |-> "json:invalidTarget", v |-> m]
    [] body.kind = "array" \/ ~m.struct -> [err |-> "json:type", v |-> m]
    [] OTHER ->
         [err |-> IF HasTypeError(body.elems[1], m.fields) THEN "json:type" ELSE "nil",
          v |-> [m EXCEPT !.fields = DecodeObject(body.elems[1], m.fields)]]

(***************************************************************************)
(* The target of ReadAll.                                                  *)
(*   kind     "nil" (untyped nil), "nonptr", "ptrNonSlice", "ptrSlice"     *)
(*   elemTyp  the slice's element type after its pointer indirections:    *)
(*            a record type, "Model" (the interface) or "int"              *)
(*   elemDepth  pointer indirections of the element type                   *)
(*   nilPtr   whether the pointer to the slice is nil                      *)
(*   len      the slice's length                                           *)
(*   arr      the elements of the backing array up to the last one that    *)
(*            was ever written (the capacity beyond holds zero values)     *)
(***************************************************************************)
MkModels(kind, elemTyp, elemDepth, nilPtr, len, arr) ==
  [kind |-> kind, elemTyp |-> elemTyp, elemDepth |-> elemDepth, nilPtr |-> nilPtr,
   len |-> len, arr |-> arr]

NoModels == MkModels("nil", "", 0, FALSE, 0, <<>>)

\* the zero value of a record type
ZeroFields(typ) ==
  CASE typ = "Todo" -> Todo(0, <<>>, FALSE)
    [] typ = "ReadmeTodo" -> ReadmeTodo(<<>>, FALSE, <<>>)
    [] OTHER -> <<>>

IsStructType(typ) == typ \in {"Todo", "ReadmeTodo"}

\* reflect.New(modelType).Elem(), then Addr() numDeref times
ZeroModel(typ, depth) == MkModel(typ, depth, 0, IsStructType(typ), ZeroFields(typ))

\* reflect's Type.Implements(Model) for the element type: a value type has
\* the value-receiver methods, a pointer to it has all of them, a pointer
\* to a pointer has none; the interface type Model implements itself
Implements(typ, depth) ==
  CASE typ = "Model" -> depth = 0
    [] typ \in {"Todo", "Name"} -> depth \in {0, 1}
    [] typ = "ReadmeTodo" -> depth = 1
    [] OTHER -> FALSE

\* getURLFromModels: rest.go 148-189; the result is [err, url]
getURLFromModels(ms) ==
  CASE ms.kind = "nil" -> [err |-> "panic", url |-> <<>>]
    [] ms.kind = "nonptr" -> [err |-> "collection:notPointer", url |-> <<>>]
    [] ms.kind = "ptrNonSlice" -> [err |-> "collection:notSlice", url |-> <<>>]
    [] ~Implements(ms.elemTyp, ms.elemDepth) -> [err |-> "collection:notModel", url |-> <<>>]
    [] ms.elemTyp = "Model" -> [err |-> "panic", url |-> <<>>]
    [] OTHER -> LET r == RootURL(ZeroModel(ms.elemTyp, ms.elemDepth)) IN
                [err |-> IF r.panic THEN "panic" ELSE "nil", url |-> r.url]

\* json's array decoding into a slice: element i is decoded into the
\* element already at index i of the backing array when there is one
\* (a nil pointer element is allocated), and into a zero value otherwise
ElementBase(ms, i) ==
  IF i <= Len(ms.arr)
  THEN IF IsNilPointer(ms.arr[i]) THEN ZeroModel(ms.elemTyp, ms.elemDepth) ELSE ms.arr[i]
  ELSE ZeroModel(ms.elemTyp, ms.elemDepth)

DecodeElement(ms, objs, i) ==
  LET base == ElementBase(ms, i) IN
  [base EXCEPT !.fields = DecodeObject(objs[i], base.fields)]

DecodeArray(ms, objs) ==
  IF Len(objs) = 0
  THEN [ms EXCEPT !.len = 0, !.arr = <<>>]
  ELSE [ms EXCEPT !.len = Len(objs),
                  !.arr = [i \in 1..(IF Len(objs) > Len(ms.arr) THEN Len(objs) ELSE Len(ms.arr)) |->
                             IF i <= Len(objs) THEN DecodeElement(ms, objs, i) ELSE ms.arr[i]]]

\* json.Unmarshal(body, v) for v the target of ReadAll: the result is [err, v]
jsonUnmarshalModels(body, ms) ==
  CASE body.kind = "invalid" -> [err |-> "json:syntax", v |-> ms]
    [] ms.nilPtr -> [err |-> "json:invalidTarget", v |-> ms]
    [] body.kind = "object" -> [err |-> "json:type", v |-> ms]
    [] OTHER ->
         [err |-> IF \E i \in 1..Len(body.elems) :
                       HasTypeError(body.elems[i], ZeroFields(ms.elemTyp))
                  THEN "json:type" ELSE "nil",
          v |-> DecodeArray(ms, body.elems)]

(***************************************************************************)
(* json.Marshal of a Model, as a token sequence                            *)
(***************************************************************************)
Quote(name) == "\"" \o name \o "\""

\* json's string escaping: quote and backslash are escaped, and so is "&"
\* (HTML escaping); a space is kept
JSONEscapeToken(c) ==
  CASE c = "\"" -> "\\\""
    [] c = "\\" -> "\\\\"
    [] c = "&" -> "\\u0026"
    [] OTHER -> c

JSONString(s) == <<"\"">> \o [i \in 1..Len(s) |-> JSONEscapeToken(s[i])] \o <<"\"">>

MarshalField(f) ==
  <<Quote(JSONKey(f)), ":">> \o
  (IF f.nilAt # 0 THEN <<"null">>
   ELSE CASE f.kind \in {"int", "uint"} -> SprintInt(f.n)
          [] f.kind = "bool" -> SprintBool(f.b)
          [] OTHER -> JSONString(f.s))

RECURSIVE MarshalFields(_, _)
MarshalFields(fields, i) ==
  IF i > Len(fields) THEN <<>>
  ELSE IF ~fields[i].exported THEN MarshalFields(fields, i + 1)
  ELSE LET rest == MarshalFields(fields, i + 1) IN
       MarshalField(fields[i]) \o (IF rest = <<>> THEN <<>> ELSE <<",">> \o rest)

jsonMarshal(m) ==
  CASE m.typ = "" \/ IsNilPointer(m) -> <<"null">>
    [] ~m.struct -> JSONString(<<"name">>)
    [] OTHER -> <<"{">> \o MarshalFields(m.fields, 1) \o <<"}">>

(***************************************************************************)
(* Client.encodeFields: rest.go 230-240; the result is [err, body]         *)
(***************************************************************************)
encodeFields(contentType, m) ==
  CASE contentType = ContentURLEncoded -> urlEncodeFields(m)
    [] contentType = ContentJSON -> [err |-> "nil", body |-> jsonMarshal(m)]
    [] OTHER -> [err |-> "contentType", body |-> <<>>]

(***************************************************************************)
(* Requests, responses and errors                                          *)
(***************************************************************************)
Request(method, url, body, header) ==
  [method |-> method, url |-> url, body |-> body, header |-> header]

\* state: "none" (no response yet), "failed" (http.DefaultClient.Do
\* returned an error), "delivered"; readOk: whether ioutil.ReadAll of the
\* body succeeds
Response(state, status, readOk, body) ==
  [state |-> state, StatusCode |-> status, readOk |-> readOk, body |-> body]

NoResponse == Response("none", 0, FALSE, InvalidBody)
TransportFailure == Response("failed", 0, FALSE, InvalidBody)

\* an error value; kind "none": the call has not returned, "nil": success,
\* "panic": the call panicked instead of returning
Err(kind) == [kind |-> kind, URL |-> <<>>, StatusCode |-> 0, Body |-> InvalidBody]

\* HTTPError and newHTTPError: test/server/main.go (http_error.go) 204-231;
\* req is res.Request, the request that the response answers
HTTPError(url, body, status) ==
  [kind |-> "HTTPError", URL |-> url, StatusCode |-> status, Body |-> body]

newHTTPError(r, req) ==
  IF ~r.readOk THEN Err("readBody")
  ELSE HTTPError(req.url, r.body, r.StatusCode)

\* http.NewRequest fails when net/url cannot parse the URL
BadURLTokens == {"%zz"}
URLValid(url) == \A i \in 1..Len(url) : url[i] \notin BadURLTokens

\* a slip that would only reject the codes from 300 on
StatusBelow300(status) == status < 300

\* rest.go 217: the status check
StatusIs2xx(status) == status \div 100 = 2

\* a Content-Type set whether or not data was provided
HeadersAlways(contentType, data) ==
  {<<"Content-Type", contentType>>, <<"Accept", "application/json">>}

\* a Content-Type header that would always name the URL encoding
HeadersURLEncoded(contentType, data) ==
  (IF data # <<>> THEN {<<"Content-Type", ContentURLEncoded>>} ELSE {})
    \cup {<<"Accept", "application/json">>}

\* rest.go 204-210: the headers of a request carrying data
Headers(contentType, data) ==
  (IF data # <<>> THEN {<<"Content-Type", contentType>>} ELSE {})
    \cup {<<"Accept", "application/json">>}

\* a transport call that would be made a second time
DoTwice(req) == <<req, req>>

\* http.DefaultClient.Do(req): the requests that reach the transport
Do(req) == <<req>>

(***************************************************************************)
(* What each operation does before it blocks in the transport:             *)
(* [err, method, url, data, header].  err is "nil" when a request is to    *)
(* be built, else the error returned (or "panic") before any request.      *)
(***************************************************************************)
Plan(e, method, url, data, header) ==
  [err |-> e, method |-> method, url |-> url, data |-> data, header |-> header]

\* Client.Create: rest.go 78-85
CreatePlan(contentType, m) ==
  LET r == RootURL(m) IN
  IF r.panic THEN Plan("panic", "POST", <<>>, <<>>, {})
  ELSE LET e == encodeFields(contentType, m) IN
       Plan(e.err, "POST", r.url, e.body, Headers(contentType, e.body))

\* a slip that would use the record's own id
ReadURLOfModelId(id, m) == RootURL(m).url \o <<"/">> \o <<ModelId(m).id>>

\* Client.Read: rest.go 93-96
ReadURL(id, m) == RootURL(m).url \o <<"/">> \o <<id>>

ReadPlan(contentType, id, m) ==
  IF RootURL(m).panic THEN Plan("panic", "GET", <<>>, <<>>, {})
  ELSE Plan("nil", "GET", ReadURL(id, m), <<>>, Headers(contentType, <<>>))

\* Client.ReadAll: rest.go 105-111
ReadAllPlan(contentType, ms) ==
  LET u == getURLFromModels(ms) IN
  Plan(u.err, "GET", u.url, <<>>, Headers(contentType, <<>>))

\* rest.go 122 and 134: model.RootURL() + "/" + model.ModelId()
ModelURL(m) == RootURL(m).url \o <<"/">> \o <<ModelId(m).id>>

\* Client.Update: rest.go 121-128
UpdatePlan(contentType, m) ==
  IF RootURL(m).panic \/ ModelId(m).panic THEN Plan("panic", "PATCH", <<>>, <<>>, {})
  ELSE LET e == encodeFields(contentType, m) IN
       Plan(e.err, "PATCH", ModelURL(m), e.body, Headers(contentType, e.body))

\* Client.Delete: rest.go 133-138
DeletePlan(m) ==
  IF RootURL(m).panic \/ ModelId(m).panic THEN Plan("panic", "DELETE", <<>>, <<>>, {})
  ELSE Plan("nil", "DELETE", ModelURL(m), <<>>, {})

(***************************************************************************)
(* What each operation does with the transport's answer: [err, model,      *)
(* models].                                                                *)
(***************************************************************************)
Outcome(e, m, ms) == [err |-> e, model |-> m, models |-> ms]

\* Client.sendRequestAndUnmarshal from the return of Do on: rest.go 212-225
UnmarshalOutcome(op, r, req, m, ms) ==
  IF r.state = "failed" THEN Outcome(Err("transport"), m, ms)
  ELSE IF ~StatusIs2xx(r.StatusCode) THEN Outcome(newHTTPError(r, req), m, ms)
  ELSE IF ~r.readOk THEN Outcome(Err("read"), m, ms)
  ELSE IF op = "ReadAll"
       THEN LET u == jsonUnmarshalModels(r.body, ms) IN Outcome(Err(u.err), m, u.v)
       ELSE LET u == jsonUnmarshalModel(r.body, m) IN Outcome(Err(u.err), u.v, ms)

\* a Delete that would decode the response like the other operations
DeleteOutcomeDecoding(r, req, m, ms) == UnmarshalOutcome("Delete", r, req, m, ms)

\* Client.Delete from the return of Do on: rest.go 139-142
DeleteOutcome(r, req, m, ms) ==
  IF r.state = "failed" THEN Outcome(Err("transport"), m, ms)
  ELSE Outcome(Err("nil"), m, ms)

(***************************************************************************)
(* Inputs                                                                  *)
(***************************************************************************)
MaxId == 1         \* the Id of a test Todo ranges over 0..MaxId
MaxResp == 2       \* elements of a response array
MaxCap == 2        \* elements of the backing array of a ReadAll target

ContentTypes == {ContentURLEncoded, ContentJSON, "text/plain"}

Discover == <<"Discover", " ", "the", " ", "meaning", " ", "of", " ", "life">>
ReadmeId == <<"9fjq293n8fw8">>

TodoPointers ==
  {MkModel("Todo", 1, 0, TRUE, Todo(id, <<"Test">>, TRUE)) : id \in 0..MaxId}
    \cup {MkModel("Todo", 1, 0, TRUE, Todo(id, Discover, FALSE)) : id \in 0..MaxId}

ReadmeTodoPointers ==
  {MkModel("ReadmeTodo", 1, 0, TRUE, ReadmeTodo(Discover, FALSE, <<>>)),
   MkModel("ReadmeTodo", 1, 0, TRUE, ReadmeTodo(<<>>, TRUE, ReadmeId))}

Models ==
  TodoPointers \cup ReadmeTodoPointers \cup
  {MkModel("Todo", 0, 0, TRUE, Todo(1, <<"Test">>, FALSE)),          \* a Todo by value
   MkModel("Todo", 1, 1, TRUE, ZeroFields("Todo")),                   \* (*Todo)(nil)
   MkModel("ReadmeTodo", 1, 1, TRUE, ZeroFields("ReadmeTodo")),       \* the README's (*Todo)(nil)
   MkModel("Name", 0, 0, FALSE, <<>>),                                \* not a struct
   MkModel("Patch", 1, 0, TRUE, <<MkField("Title", TRUE, "string", 1, 1, 0, <<>>, FALSE)>>),
   MkModel("Empty", 1, 0, TRUE, <<>>),
   NilInterface}

ReadIds == {"2", "9999", "%zz"}

Statuses == {199, 200, 299, 300, 422}

\* test/server/main.go 32-48 and 111-116
ServerTodo(i) ==
  {NumberMember("Id", i), StringMember("Title", <<"Todo ", ToString(i)>>),
   BoolMember("IsCompleted", i = 2)}
CreatedTodo ==
  {NumberMember("Id", 3), StringMember("Title", <<"Test">>), BoolMember("IsCompleted", TRUE)}
\* the README's response
ReadmeObject ==
  {StringMember("Id", ReadmeId), StringMember("Title", Discover), BoolMember("IsCompleted", FALSE)}
\* an object that carries one field only
PartialTodo == {NumberMember("Id", 1)}

RecordBodies ==
  {ObjectBody(o) : o \in {CreatedTodo, ReadmeObject, PartialTodo}}
    \cup {ArrayBody(<<>>), InvalidBody}

RECURSIVE SeqsUpTo(_, _)
SeqsUpTo(S, n) ==
  IF n = 0 THEN {<<>>}
  ELSE LET shorter == SeqsUpTo(S, n - 1) IN
       shorter \cup {Append(q, x) : q \in {t \in shorter : Len(t) = n - 1}, x \in S}

ListObjects == {ServerTodo(2), PartialTodo}
ListBodies ==
  {ArrayBody(objs) : objs \in SeqsUpTo(ListObjects, MaxResp)}
    \cup {ObjectBody(CreatedTodo), InvalidBody}

\* a body that cannot be read has no content the client could see
ResponsesOver(bodies) ==
  {TransportFailure}
    \cup {Response("delivered", status, TRUE, body) : status \in Statuses, body \in bodies}
    \cup {Response("delivered", status, FALSE, InvalidBody) : status \in Statuses}

\* prior contents of a collection
OldTodo(depth) == MkModel("Todo", depth, 0, TRUE, Todo(7, <<"old">>, TRUE))
\* a []Todo holds zero or old todos, a []*Todo nil or old ones
PriorElements(depth) ==
  IF depth = 0 THEN {ZeroModel("Todo", 0), OldTodo(0)}
  ELSE {MkModel("Todo", 1, 1, TRUE, ZeroFields("Todo")), OldTodo(1)}

TodoSlices ==
  {MkModels("ptrSlice", "Todo", depth, FALSE, len, arr) :
     depth \in {0}, arr \in SeqsUpTo(PriorElements(0), MaxCap), len \in 0..MaxCap}
  \cup
  {MkModels("ptrSlice", "Todo", depth, FALSE, len, arr) :
     depth \in {1}, arr \in SeqsUpTo(PriorElements(1), MaxCap), len \in 0..MaxCap}

Collections ==
  {ms \in TodoSlices : ms.len <= Len(ms.arr)} \cup
  {NoModels,                                                  \* nil
   MkModels("nonptr", "Todo", 0, FALSE, 0, <<>>),             \* []Todo
   MkModels("ptrNonSlice", "Todo", 0, FALSE, 0, <<>>),        \* *Todo
   MkModels("ptrSlice", "int", 0, FALSE, 0, <<>>),            \* *[]int
   MkModels("ptrSlice", "Model", 0, FALSE, 0, <<>>),          \* *[]Model
   MkModels("ptrSlice", "ReadmeTodo", 0, FALSE, 0, <<>>),     \* *[]Todo of the README
   MkModels("ptrSlice", "ReadmeTodo", 1, FALSE, 0, <<>>),     \* *[]*Todo of the README
   MkModels("ptrSlice", "Todo", 2, FALSE, 0, <<>>),           \* *[]**Todo
   MkModels("ptrSlice", "Todo", 0, TRUE, 0, <<>>)}            \* (*[]Todo)(nil)

(***************************************************************************)
(* The server's side of a form body: test/server/main.go 97, 111-116.      *)
(* forms.Parse reads a url-encoded body with url.ParseQuery: the body is   *)
(* cut at every "&", each piece at its first "=", and key and value are    *)
(* unescaped.  A handler then converts each value to the type of the       *)
(* field it fills (Get, GetBool, and their like for the other types) and   *)
(* answers with the JSON of the struct.                                    *)
(***************************************************************************)
\* url.QueryUnescape on one token
UnescapeToken(c) ==
  CASE c = "+" -> " "
    [] c = "%26" -> "&"
    [] c = "%3D" -> "="
    [] c = "%2B" -> "+"
    [] c = "%25" -> "%"
    [] c = "%2F" -> "/"
    [] OTHER -> c

QueryUnescape(s) == [i \in 1..Len(s) |-> UnescapeToken(s[i])]

\* the position of the first sep in s, 0 when there is none
FirstIndex(s, sep) ==
  LET idx == {i \in 1..Len(s) : s[i] = sep} IN
  IF idx = {} THEN 0 ELSE CHOOSE i \in idx : \A j \in idx : i <= j

RECURSIVE SplitOn(_, _)
SplitOn(s, sep) ==
  LET k == FirstIndex(s, sep) IN
  IF k = 0 THEN <<s>>
  ELSE <<SubSeq(s, 1, k - 1)>> \o SplitOn(SubSeq(s, k + 1, Len(s)), sep)

\* one piece of the body as [key, value]
ParsePair(piece) ==
  LET k == FirstIndex(piece, "=") IN
  IF k = 0 THEN [key |-> QueryUnescape(piece), value |-> <<>>]
  ELSE [key |-> QueryUnescape(SubSeq(piece, 1, k - 1)),
        value |-> QueryUnescape(SubSeq(piece, k + 1, Len(piece)))]

RECURSIVE ParsePieces(_)
ParsePieces(pieces) ==
  IF pieces = <<>> THEN <<>>
  ELSE (IF Head(pieces) = <<>> THEN <<>> ELSE <<ParsePair(Head(pieces))>>)
         \o ParsePieces(Tail(pieces))

\* url.ParseQuery: the pairs of the body in order
ParseQuery(body) == ParsePieces(SplitOn(body, "&"))

\* forms.Data: KeyExists and Get (the first value of the key, "" if none)
KeyExists(data, key) == \E i \in 1..Len(data) : data[i].key = <<key>>

Get(data, key) ==
  IF KeyExists(data, key)
  THEN data[CHOOSE i \in 1..Len(data) :
              data[i].key = <<key>> /\ \A j \in 1..(i - 1) : data[j].key # <<key>>].value
  ELSE <<>>

\* strconv.ParseBool: the result is [ok, b]
ParseBool(text) ==
  CASE text \in {<<"1">>, <<"t">>, <<"T">>, <<"TRUE">>, <<"true">>, <<"True">>} -> [ok |-> TRUE, b |-> TRUE]
    [] text \in {<<"0">>, <<"f">>, <<"F">>, <<"FALSE">>, <<"false">>, <<"False">>} -> [ok |-> TRUE, b |-> FALSE]
    [] OTHER -> [ok |-> FALSE, b |-> FALSE]

DigitTokens == {ToString(d) : d \in 0..9}
DigitValue(t) == CHOOSE d \in 0..9 : ToString(d) = t

RECURSIVE ParseDigits(_, _)
ParseDigits(text, acc) ==
  IF text = <<>> THEN acc
  ELSE ParseDigits(Tail(text), 10 * acc + DigitValue(Head(text)))

\* strconv.Atoi on a text of sign and digit tokens: the result is [ok, n]
Atoi(text) ==
  LET digits == IF text # <<>> /\ Head(text) \in {"-", "+"} THEN Tail(text) ELSE text IN
  IF digits = <<>> \/ \E i \in 1..Len(digits) : digits[i] \notin DigitTokens
  THEN [ok |-> FALSE, n |-> 0]
  ELSE [ok |-> TRUE,
        n |-> IF Head(text) = "-" THEN 0 - ParseDigits(digits, 0) ELSE ParseDigits(digits, 0)]

GetBool(data, key) == ParseBool(Get(data, key)).b
GetInt(data, key) == Atoi(Get(data, key)).n

\* the member a handler answers for the field f of its struct, filled from
\* the form data as lines 111-115 fill Title and IsCompleted
EchoMember(data, f) ==
  CASE f.kind \in {"int", "uint"} -> NumberMember(f.name, GetInt(data, f.name))
    [] f.kind = "bool" -> BoolMember(f.name, GetBool(data, f.name))
    [] OTHER -> StringMember(f.name, Get(data, f.name))

\* the JSON object of c.JSON(http.StatusOK, todo) for a struct of these fields
EchoObject(data, fields) == {EchoMember(data, fields[i]) : i \in 1..Len(fields)}

(***************************************************************************)
(* The test server: test/server/main.go.                                   *)
(* A todo is [Id, Title, IsCompleted]; todos is the package variable of    *)
(* lines 32-48.  A request is [method, id, body]: id is the text of the    *)
(* :id parameter (empty on the routes of the collection), body the form    *)
(* body.  A handler yields [todos, resp]: the list after the request and   *)
(* the response.                                                           *)
(***************************************************************************)
InitialTodos ==
  <<[Id |-> 0, Title |-> <<"Todo ", "0">>, IsCompleted |-> FALSE],
    [Id |-> 1, Title |-> <<"Todo ", "1">>, IsCompleted |-> FALSE],
    [Id |-> 2, Title |-> <<"Todo ", "2">>, IsCompleted |-> TRUE]>>

ServerRequest(method, id, body) == [method |-> method, id |-> id, body |-> body]
NoServerRequest == ServerRequest("", <<>>, <<>>)
NotServed == [req |-> NoServerRequest, resp |-> NoResponse]

\* c.JSON(status, v) for v a todo, the list of todos, struct{}{} or a map
TodoObject(t) ==
  {NumberMember("Id", t.Id), StringMember("Title", t.Title),
   BoolMember("IsCompleted", t.IsCompleted)}

Answer(ts, status, body) ==
  [todos |-> ts, resp |-> Response("delivered", status, TRUE, body)]

\* gin's Recovery answers a panic of the handler with 500 and no body
Recovered(ts) == Answer(ts, 500, InvalidBody)

\* forms.Parse returns an error for a body that url.ParseQuery rejects
FormValid(body) == \A i \in 1..Len(body) : body[i] \notin BadURLTokens

\* Validator.Require: the key exists and its value is not blank
IsBlank(text) == \A i \in 1..Len(text) : text[i] = " "
RequireFails(data, key) == ~KeyExists(data, key) \/ IsBlank(Get(data, key))
\* Validator.TypeBool: the value converts with strconv.ParseBool
TypeBoolFails(data, key) == ~ParseBool(Get(data, key)).ok

\* Validator.ErrorMap as a JSON object: one member per field with errors
CreateErrors(data) ==
  (IF RequireFails(data, "Title")
   THEN {StringMember("Title", <<"Title is required.">>)} ELSE {})
  \cup
  (IF RequireFails(data, "IsCompleted") \/ TypeBoolFails(data, "IsCompleted")
   THEN {StringMember("IsCompleted",
           (IF RequireFails(data, "IsCompleted") THEN <<"IsCompleted is required.">> ELSE <<>>)
           \o (IF TypeBoolFails(data, "IsCompleted")
               THEN <<"IsCompleted must be either true or false.">> ELSE <<>>))}
   ELSE {})

\* parseId: lines 182-192; the result is [ok, id]
parseId(ts, idStr) ==
  LET a == Atoi(idStr) IN
  IF ~a.ok THEN [ok |-> FALSE, id |-> 0]
  ELSE IF a.n < 0 \/ a.n > Len(ts) - 1 THEN [ok |-> FALSE, id |-> 0]
  ELSE [ok |-> TRUE, id |-> a.n]

\* the 422 of a failed parseId: map[string]error{"error": err}, whose JSON
\* is an object with the member "error"
IdError(ts) == Answer(ts, 422, ObjectBody({StringMember("error", <<>>)}))

\* Index: lines 87-89
ServeIndex(ts, req) == Answer(ts, 200, ArrayBody([i \in 1..Len(ts) |-> TodoObject(ts[i])]))

\* Create: lines 95-117
ServeCreate(ts, req) ==
  IF ~FormValid(req.body) THEN Recovered(ts)
  ELSE LET todoData == ParseQuery(req.body) IN
       IF CreateErrors(todoData) # {}
       THEN Answer(ts, 422, ObjectBody(CreateErrors(todoData)))
       ELSE Answer(ts, 200, ObjectBody(TodoObject(
              [Id |-> 3, Title |-> Get(todoData, "Title"),
               IsCompleted |-> GetBool(todoData, "IsCompleted")])))

\* Show: lines 122-132
ServeShow(ts, req) ==
  LET p == parseId(ts, req.id) IN
  IF ~p.ok THEN IdError(ts)
  ELSE Answer(ts, 200, ObjectBody(TodoObject(ts[p.id + 1])))

\* the todo that Update answers with: the copy of todos[id] with the
\* fields the request provides
UpdatedCopy(ts, id, todoData) ==
  LET todoCopy == ts[id + 1]
      withCompleted == IF KeyExists(todoData, "IsCompleted")
                       THEN [todoCopy EXCEPT !.IsCompleted = GetBool(todoData, "IsCompleted")]
                       ELSE todoCopy
  IN IF KeyExists(todoData, "Title")
     THEN [withCompleted EXCEPT !.Title = Get(todoData, "Title")]
     ELSE withCompleted

\* an Update that would store the copy in the list
ServeUpdateStoring(ts, req) ==
  LET p == parseId(ts, req.id) IN
  IF ~p.ok THEN IdError(ts)
  ELSE IF ~FormValid(req.body) THEN Recovered(ts)
  ELSE LET todoData == ParseQuery(req.body) IN
       IF KeyExists(todoData, "IsCompleted") /\ TypeBoolFails(todoData, "IsCompleted")
       THEN Answer(ts, 422, ObjectBody(
              {StringMember("IsCompleted", <<"IsCompleted must be either true or false.">>)}))
       ELSE Answer([ts EXCEPT ![p.id + 1] = UpdatedCopy(ts, p.id, todoData)], 200,
                   ObjectBody(TodoObject(UpdatedCopy(ts, p.id, todoData))))

\* Update: lines 134-165
ServeUpdate(ts, req) ==
  LET p == parseId(ts, req.id) IN
  IF ~p.ok THEN IdError(ts)
  ELSE IF ~FormValid(req.body) THEN Recovered(ts)
  ELSE LET todoData == ParseQuery(req.body) IN
       IF KeyExists(todoData, "IsCompleted") /\ TypeBoolFails(todoData, "IsCompleted")
       THEN Answer(ts, 422, ObjectBody(
              {StringMember("IsCompleted", <<"IsCompleted must be either true or false.">>)}))
       ELSE Answer(ts, 200, ObjectBody(TodoObject(UpdatedCopy(ts, p.id, todoData))))

\* Delete: lines 167-176
ServeDelete(ts, req) ==
  IF ~parseId(ts, req.id).ok THEN IdError(ts)
  ELSE Answer(ts, 200, ObjectBody({}))

\* the requests the server is sent
ServerIds == {<<"0">>, <<"1">>, <<"2">>, <<"3">>, <<"-", "1">>, <<"x">>, <<"9", "9", "9", "9">>}
FormTitles == {<<>>, <<"Test">>, <<"Updated", " ", "Title">>}
FormBools == {<<"true">>, <<"false">>, <<"maybe">>}

FormPairs(hasTitle, title, hasCompleted, completed) ==
  (IF hasTitle THEN <<(<<"Title", "=">> \o QueryEscape(title))>> ELSE <<>>)
  \o (IF hasCompleted THEN <<(<<"IsCompleted", "=">> \o completed)>> ELSE <<>>)

FormBodies ==
  {JoinFields(FormPairs(hasTitle, title, hasCompleted, completed), "&") :
     hasTitle \in BOOLEAN, title \in FormTitles,
     hasCompleted \in BOOLEAN, completed \in FormBools}
  \cup {<<"Title", "=", "%zz">>}

\* the server handles one request
Serve(req, answer) ==
  /\ todos' = answer.todos
  /\ srv' = [req |-> req, resp |-> answer.resp]
  /\ UNCHANGED <<ContentType, pc, call, model, models, sent, res, err, encIn, encOut, th>>

Index == LET req == ServerRequest("GET", <<>>, <<>>) IN Serve(req, ServeIndex(todos, req))
ServerCreate(body) ==
  LET req == ServerRequest("POST", <<>>, body) IN Serve(req, ServeCreate(todos, req))
Show(id) == LET req == ServerRequest("GET", id, <<>>) IN Serve(req, ServeShow(todos, req))
ServerUpdate(id, body) ==
  LET req == ServerRequest("PATCH", id, body) IN Serve(req, ServeUpdate(todos, req))
ServerDelete(id) ==
  LET req == ServerRequest("DELETE", id, <<>>) IN Serve(req, ServeDelete(todos, req))

(***************************************************************************)
(* The client                                                              *)
(***************************************************************************)
\* ct: the ContentType the call read ("" when it reads none)
NoCall == [op |-> "", id |-> "", ct |-> "", model |-> NilInterface, models |-> NoModels]

\* the goroutines that share the client, and one of them before its call:
\* method, url and data are the locals of Create and Update between
\* encodeFields and sendRequestAndUnmarshal
MaxThreads == 2
Threads == 1..MaxThreads

\* ctSent: the ContentType the call read when it set the header ("" if none)
IdleThread ==
  [pc |-> "idle", call |-> NoCall, method |-> "", url |-> <<>>, data |-> <<>>,
   ctSent |-> "", model |-> NilInterface, models |-> NoModels, sent |-> <<>>,
   res |-> NoResponse, err |-> Err("none")]

\* urlEncodeFields has not run
NotEncoded == [err |-> "none", body |-> <<>>, msg |-> <<>>]

\* NewClient: rest.go 47-51
Init ==
  /\ ContentType = ContentURLEncoded
  /\ pc = "idle"
  /\ call = NoCall
  /\ model = NilInterface
  /\ models = NoModels
  /\ sent = <<>>
  /\ res = NoResponse
  /\ err = Err("none")
  /\ encIn = NilInterface
  /\ encOut = NotEncoded
  /\ todos = InitialTodos
  /\ srv = NotServed
  /\ th = [t \in Threads |-> IdleThread]

\* the caller assigns client.ContentType between calls
SetContentType(ct) ==
  /\ pc # "waiting"
  /\ ContentType' = ct
  /\ UNCHANGED <<pc, call, model, models, sent, res, err, encIn, encOut, todos, srv, th>>

\* an operation up to the call of http.DefaultClient.Do: it returns (or
\* panics) before any request, or http.NewRequest fails (rest.go 200-203,
\* 135-138), or the request is sent and the caller blocks
Begin(op, id, ct, m, ms, plan) ==
  /\ pc \in {"idle", "done"}
  /\ call' = [op |-> op, id |-> id, ct |-> ct, model |-> m, models |-> ms]
  /\ model' = m
  /\ models' = ms
  /\ res' = NoResponse
  /\ IF plan.err # "nil"
     THEN pc' = "done" /\ err' = Err(plan.err) /\ sent' = <<>>
     ELSE IF ~URLValid(plan.url)
     THEN pc' = "done" /\ err' = Err("build") /\ sent' = <<>>
     ELSE /\ pc' = "waiting"
          /\ err' = Err("none")
          /\ sent' = Do(Request(plan.method, plan.url, plan.data, plan.header))
  /\ UNCHANGED <<ContentType, encIn, encOut, todos, srv, th>>

Create(m) == Begin("Create", "", ContentType, m, NoModels, CreatePlan(ContentType, m))
Read(id, m) == Begin("Read", id, "", m, NoModels, ReadPlan(ContentType, id, m))
ReadAll(ms) == Begin("ReadAll", "", "", NilInterface, ms, ReadAllPlan(ContentType, ms))
Update(m) == Begin("Update", "", ContentType, m, NoModels, UpdatePlan(ContentType, m))
Delete(m) == Begin("Delete", "", "", m, NoModels, DeletePlan(m))

\* the transport answers and the operation returns
Finish(r, o) ==
  /\ res' = r
  /\ pc' = "done"
  /\ err' = o.err
  /\ model' = o.model
  /\ models' = o.models
  /\ UNCHANGED <<ContentType, call, sent, encIn, encOut, todos, srv, th>>

Return(r) ==
  /\ pc = "waiting"
  /\ call.op \in {"Create", "Read", "ReadAll", "Update"}
  /\ Finish(r, UnmarshalOutcome(call.op, r, sent[1], model, models))

DeleteReturn(r) ==
  /\ pc = "waiting"
  /\ call.op = "Delete"
  /\ Finish(r, DeleteOutcome(r, sent[1], model, models))

Next ==
  \/ \E ct \in ContentTypes : SetContentType(ct)
  \/ \E m \in Models : Create(m)
  \/ \E id \in ReadIds, m \in Models : Read(id, m)
  \/ \E ms \in Collections : ReadAll(ms)
  \/ \E m \in Models : Update(m)
  \/ \E m \in Models : Delete(m)
  \/ \E r \in ResponsesOver(IF call.op = "ReadAll" THEN ListBodies ELSE RecordBodies) : Return(r)
  \/ \E r \in ResponsesOver(RecordBodies) : DeleteReturn(r)

Spec == Init /\ [][Next]_vars

(***************************************************************************)
(* The encoder on its own: urlEncodeFields applied to generic records.     *)
(***************************************************************************)
IntValues == {-1, 0, MaxInt}
StringValues == {<<>>, <<"a", " ", "b">>, <<"x", "&", "=">>, <<"1", "+", "%", "/">>}

\* the values a field named name can have
ScalarFields(name) ==
  {MkField(name, TRUE, "int", 0, 0, n, <<>>, FALSE) : n \in IntValues}
    \cup {MkField(name, TRUE, "string", 0, 0, 0, s, FALSE) : s \in StringValues}
    \cup {MkField(name, TRUE, "bool", 0, 0, 0, <<>>, b) : b \in BOOLEAN}
    \cup {MkField(name, TRUE, "uint", 0, 0, 7, <<>>, FALSE),
          MkField(name, TRUE, "bytes", 0, 0, 0, <<"a", "/">>, FALSE)}

UnsupportedFields(name) ==
  {MkField(name, TRUE, kind, 0, 0, 0, <<>>, FALSE) : kind \in {"struct", "float", "named"}}

PointerFields(name) ==
  {MkField(name, TRUE, "int", depth, 0, MaxInt, <<>>, FALSE) : depth \in 1..MaxDepth}
    \cup {MkField(name, TRUE, "string", depth, 0, 0, <<"a", " ", "b">>, FALSE) : depth \in 1..MaxDepth}
    \cup {MkField(name, TRUE, "struct", depth, 0, 0, <<>>, FALSE) : depth \in 1..MaxDepth}

NilPointerFields(name) ==
  {MkField(name, TRUE, kind, depth, nilAt, 0, <<>>, FALSE) :
     kind \in {"int", "struct"}, depth \in 1..MaxDepth, nilAt \in 1..MaxDepth}

UnexportedFields(name) ==
  {MkField(name, FALSE, "int", 0, 0, 7, <<>>, FALSE),
   MkField(name, FALSE, "string", 1, 1, 0, <<>>, FALSE)}

FieldValues(name) ==
  ScalarFields(name) \cup UnsupportedFields(name) \cup PointerFields(name)
    \cup {f \in NilPointerFields(name) : f.nilAt <= f.depth}
    \cup UnexportedFields(name)

FieldName(i) == "F" \o ToString(i)

RECURSIVE FieldLists(_)
FieldLists(n) ==
  IF n = 0 THEN {<<>>}
  ELSE LET shorter == FieldLists(n - 1) IN
       shorter \cup {Append(fs, f) : fs \in {t \in shorter : Len(t) = n - 1},
                                     f \in FieldValues(FieldName(n))}

EncoderInputs ==
  {MkModel("Rec", depth, 0, TRUE, fields) : depth \in {0, 1}, fields \in FieldLists(MaxFields)}
    \cup {MkModel("Rec", 1, 1, TRUE, <<>>), MkModel("Rec", 2, 2, TRUE, <<>>),
          MkModel("Name", 0, 0, FALSE, <<>>), MkModel("Name", 1, 0, FALSE, <<>>)}

InitEncode ==
  /\ ContentType = ContentURLEncoded
  /\ pc = "idle"
  /\ call = NoCall
  /\ model = NilInterface
  /\ models = NoModels
  /\ sent = <<>>
  /\ res = NoResponse
  /\ err = Err("none")
  /\ encIn \in EncoderInputs
  /\ encOut = NotEncoded
  /\ todos = InitialTodos
  /\ srv = NotServed
  /\ th = [t \in Threads |-> IdleThread]

Encode ==
  /\ encOut.err = "none"
  /\ encOut' = urlEncodeFields(encIn)
  /\ UNCHANGED <<ContentType, pc, call, model, models, sent, res, err, encIn, todos, srv, th>>

NextEncode == Encode

SpecEncode == InitEncode /\ [][NextEncode]_vars

(***************************************************************************)
(* Goroutines that share one client, each with a record or collection of   *)
(* its own, as the six tests of default_id.go 55-179 run.  A goroutine     *)
(* makes one call.  Create and Update take two steps up to the transport:  *)
(* encodeFields reads ContentType (rest.go 231), and                       *)
(* sendRequestAndUnmarshal reads it again for the header (rest.go 206);    *)
(* other goroutines may run between the two.                               *)
(***************************************************************************)
\* a buffer for the encoded data that the client would keep for all calls
EncodedDataOfClient(ths, t) ==
  LET enc == {u \in DOMAIN ths : ths[u].pc = "encoded"} IN
  ths[CHOOSE u \in enc : \A v \in enc : u <= v].data

\* the local encodedModelData of the call of goroutine t: rest.go 80, 84
EncodedData(ths, t) == ths[t].data

\* the call returns (or panics) without a request
ThreadDone(t, c, e) ==
  th' = [th EXCEPT ![t] = [@ EXCEPT !.pc = "done", !.call = c, !.model = c.model,
                                    !.models = c.models, !.err = Err(e)]]

\* Create and Update up to the return of encodeFields: rest.go 78-83, 121-126
ThreadEncode(t, op, m, plan) ==
  /\ th[t].pc = "idle"
  /\ LET c == [op |-> op, id |-> "", ct |-> ContentType, model |-> m, models |-> NoModels] IN
     IF plan.err # "nil" THEN ThreadDone(t, c, plan.err)
     ELSE th' = [th EXCEPT ![t] = [@ EXCEPT !.pc = "encoded", !.call = c, !.model = m,
                                            !.method = plan.method, !.url = plan.url,
                                            !.data = plan.data]]
  /\ UNCHANGED <<ContentType, pc, call, model, models, sent, res, err, encIn, encOut, todos, srv>>

TCreate(t, m) == ThreadEncode(t, "Create", m, CreatePlan(ContentType, m))
TUpdate(t, m) == ThreadEncode(t, "Update", m, UpdatePlan(ContentType, m))

\* sendRequestAndUnmarshal up to the call of Do: rest.go 198-212
TSend(t) ==
  /\ th[t].pc = "encoded"
  /\ LET data == EncodedData(th, t) IN
     IF ~URLValid(th[t].url)
     THEN th' = [th EXCEPT ![t] = [@ EXCEPT !.pc = "done", !.err = Err("build")]]
     ELSE th' = [th EXCEPT ![t] =
                  [@ EXCEPT !.pc = "waiting",
                            !.ctSent = IF data # <<>> THEN ContentType ELSE "",
                            !.sent = Do(Request(th[t].method, th[t].url, data,
                                                Headers(ContentType, data)))]]
  /\ UNCHANGED <<ContentType, pc, call, model, models, sent, res, err, encIn, encOut, todos, srv>>

\* Read, ReadAll and Delete up to the call of Do
ThreadBegin(t, op, id, m, ms, plan) ==
  /\ th[t].pc = "idle"
  /\ LET c == [op |-> op, id |-> id, ct |-> "", model |-> m, models |-> ms] IN
     IF plan.err # "nil" THEN ThreadDone(t, c, plan.err)
     ELSE IF ~URLValid(plan.url) THEN ThreadDone(t, c, "build")
     ELSE th' = [th EXCEPT ![t] =
                  [@ EXCEPT !.pc = "waiting", !.call = c, !.model = m, !.models = ms,
                            !.method = plan.method, !.url = plan.url,
                            !.sent = Do(Request(plan.method, plan.url, plan.data, plan.header))]]
  /\ UNCHANGED <<ContentType, pc, call, model, models, sent, res, err, encIn, encOut, todos, srv>>

TRead(t, id, m) == ThreadBegin(t, "Read", id, m, NoModels, ReadPlan(ContentType, id, m))
TReadAll(t, ms) == ThreadBegin(t, "ReadAll", "", NilInterface, ms, ReadAllPlan(ContentType, ms))
TDelete(t, m) == ThreadBegin(t, "Delete", "", m, NoModels, DeletePlan(m))

\* the transport answers the request of goroutine t and its call returns
TReturn(t, r) ==
  /\ th[t].pc = "waiting"
  /\ LET o == IF th[t].call.op = "Delete"
              THEN DeleteOutcome(r, th[t].sent[1], th[t].model, th[t].models)
              ELSE UnmarshalOutcome(th[t].call.op, r, th[t].sent[1], th[t].model, th[t].models)
     IN th' = [th EXCEPT ![t] = [@ EXCEPT !.pc = "done", !.res = r, !.err = o.err,
                                          !.model = o.model, !.models = o.models]]
  /\ UNCHANGED <<ContentType, pc, call, model, models, sent, res, err, encIn, encOut, todos, srv>>

\* another goroutine assigns client.ContentType while calls are in progress
TSetContentType(ct) ==
  /\ ContentType' = ct
  /\ UNCHANGED <<pc, call, model, models, sent, res, err, encIn, encOut, todos, srv, th>>

\* the calls of the tests: default_id.go 83-84, 101-102, 114-118, 132-137,
\* 151-154, 165
NewTodo == MkModel("Todo", 1, 0, TRUE, Todo(0, <<"Test">>, TRUE))
UpdatedTodo == MkModel("Todo", 1, 0, TRUE, Todo(1, <<"Updated", " ", "Title">>, TRUE))
DeletedTodo == MkModel("Todo", 1, 0, TRUE, Todo(1, <<>>, FALSE))
GotTodo == ZeroModel("Todo", 1)
GotTodos == MkModels("ptrSlice", "Todo", 1, FALSE, 0, <<>>)
TestReadIds == {"2", "9999"}

\* what the transport may return to a call
ThreadResponses(op) ==
  IF op = "ReadAll"
  THEN {TransportFailure, Response("delivered", 200, TRUE, ArrayBody(<<ServerTodo(2)>>))}
  ELSE {TransportFailure,
        Response("delivered", 200, TRUE, ObjectBody(CreatedTodo)),
        Response("delivered", 422, TRUE, ObjectBody({StringMember("error", <<>>)}))}

\* the test sets the ContentType before it starts the goroutines:
\* default_id.go 56-57
InitConc ==
  /\ ContentType \in {ContentURLEncoded, ContentJSON}
  /\ pc = "idle"
  /\ call = NoCall
  /\ model = NilInterface
  /\ models = NoModels
  /\ sent = <<>>
  /\ res = NoResponse
  /\ err = Err("none")
  /\ encIn = NilInterface
  /\ encOut = NotEncoded
  /\ todos = InitialTodos
  /\ srv = NotServed
  /\ th = [t \in Threads |-> IdleThread]

NextConc ==
  \/ \E t \in Threads : TCreate(t, NewTodo)
  \/ \E t \in Threads : TUpdate(t, UpdatedTodo)
  \/ \E t \in Threads : TSend(t)
  \/ \E t \in Threads, id \in TestReadIds : TRead(t, id, GotTodo)
  \/ \E t \in Threads : TReadAll(t, GotTodos)
  \/ \E t \in Threads : TDelete(t, DeletedTodo)
  \/ \E t \in Threads : \E r \in ThreadResponses(th[t].call.op) : TReturn(t, r)

\* the client's ContentType is not modified while the goroutines run
SpecConc == InitConc /\ [][NextConc]_vars

NextRace ==
  \/ NextConc
  \/ \E ct \in {ContentURLEncoded, ContentJSON} : TSetContentType(ct)

\* a goroutine assigns ContentType while the others make their calls
SpecRace == InitConc /\ [][NextRace]_vars

(***************************************************************************)
(* The test server on its own: any sequence of requests.                   *)
(***************************************************************************)
NextServer ==
  \/ Index
  \/ \E body \in FormBodies : ServerCreate(body)
  \/ \E id \in ServerIds : Show(id)
  \/ \E id \in ServerIds, body \in FormBodies : ServerUpdate(id, body)
  \/ \E id \in ServerIds : ServerDelete(id)

SpecServer == Init /\ [][NextServer]_vars

(***************************************************************************)
(* Properties of the encoder                                               *)
(***************************************************************************)
Encoded == encOut.err # "none"

\* the names of the key=value pairs of a body: the tokens followed by "="
RECURSIVE PairNamesFrom(_, _)
PairNamesFrom(body, i) ==
  IF i >= Len(body) THEN <<>>
  ELSE IF body[i + 1] = "=" THEN <<body[i]>> \o PairNamesFrom(body, i + 1)
  ELSE PairNamesFrom(body, i + 1)

PairNames(body) == PairNamesFrom(body, 1)

IsNilField(f) == f.depth > 0 /\ f.nilAt # 0
Encodable(f) == f.exported /\ f.kind \in {"int", "uint", "bool", "string", "bytes"}

RECURSIVE NamesOf(_)
NamesOf(fields) ==
  IF fields = <<>> THEN <<>>
  ELSE (IF IsNilField(Head(fields)) THEN <<>> ELSE <<Head(fields).name>>)
         \o NamesOf(Tail(fields))

IsStructValue(m) == m.struct /\ m.nilAt = 0

\* C7: in URL encoding a field that is a nil pointer, at any depth of
\* indirection, contributes nothing to the body (no name, no "Field=") and
\* causes no error: when every other field can be encoded, the encoding
\* succeeds and its pairs are exactly the other fields, in declaration order.
C7_NilFieldOmitted ==
  (Encoded /\ IsStructValue(encIn)) =>
    /\ \A i \in 1..Len(encIn.fields) :
         IsNilField(encIn.fields[i]) =>
           \A j \in 1..Len(encOut.body) : encOut.body[j] # encIn.fields[i].name
    /\ (\A i \in 1..Len(encIn.fields) :
          IsNilField(encIn.fields[i]) \/ Encodable(encIn.fields[i]))
         => /\ encOut.err = "nil"
            /\ PairNames(encOut.body) = NamesOf(encIn.fields)

\* a record whose first field is a pointer to a nil pointer and whose second
\* field was encoded
C7_Witness ==
  /\ Encoded
  /\ Len(encIn.fields) = 2
  /\ encIn.fields[1].depth = 2 /\ encIn.fields[1].nilAt = 2
  /\ encOut.err = "nil"
  /\ encOut.body = <<"F2", "=", "a", "+", "b">>

\* a field whose value, after its pointers are followed, has a type the
\* switch of urlEncodeField does not list
IsUnsupportedField(f) ==
  ~IsNilField(f) /\ f.kind \notin {"int", "uint", "bool", "string", "bytes"}

\* the text contains the token
Mentions(msg, token) == \E j \in 1..Len(msg) : msg[j] = token

\* C11: URL-encoding a record with a field of unsupported type that is not a
\* nil pointer fails with an error, the error names an offending field, and
\* no encoded body is produced.
C11_ErrorNamesField ==
  (Encoded /\ IsStructValue(encIn)
     /\ \E i \in 1..Len(encIn.fields) : IsUnsupportedField(encIn.fields[i]))
    => /\ encOut.err = "unsupported"
       /\ encOut.body = <<>>
       /\ \E i \in 1..Len(encIn.fields) :
            IsUnsupportedField(encIn.fields[i]) /\ Mentions(encOut.msg, encIn.fields[i].name)

\* the Name=value pairs of the exported fields that are not nil pointers
RECURSIVE ExportedPairs(_)
ExportedPairs(fields) ==
  IF fields = <<>> THEN <<>>
  ELSE (IF Head(fields).exported /\ ~IsNilField(Head(fields))
        THEN <<(<<Head(fields).name, "=">> \o EncodeValue(Head(fields)).out)>>
        ELSE <<>>)
         \o ExportedPairs(Tail(fields))

\* C12: the URL-encoded body is exactly the "&"-join, in declaration order,
\* of Name=value for each exported field that is not a nil pointer, the name
\* as declared; unexported fields contribute nothing and cause no failure.
C12_BodyIsJoinOfExported ==
  (Encoded /\ IsStructValue(encIn)
     /\ \A i \in 1..Len(encIn.fields) :
          (encIn.fields[i].exported /\ ~IsNilField(encIn.fields[i])) => Encodable(encIn.fields[i]))
    => /\ encOut.err = "nil"
       /\ encOut.body = JoinFields(ExportedPairs(encIn.fields), "&")

\* a record of the kind the round trip is about: every field exported, not
\* a pointer, of a supported type
ScalarRecord(m) ==
  /\ IsStructValue(m)
  /\ \A i \in 1..Len(m.fields) : m.fields[i].depth = 0 /\ Encodable(m.fields[i])

ZeroOf(f) == [f EXCEPT !.n = 0, !.s = <<>>, !.b = FALSE]

\* the form data carry the field's value: the text the server reads for the
\* field's name converts to the value the record holds
FormValueEquals(data, f) ==
  /\ KeyExists(data, f.name)
  /\ CASE f.kind \in {"int", "uint"} ->
             Atoi(Get(data, f.name)).ok /\ Atoi(Get(data, f.name)).n = f.n
        [] f.kind = "bool" ->
             ParseBool(Get(data, f.name)).ok /\ ParseBool(Get(data, f.name)).b = f.b
        [] OTHER -> Get(data, f.name) = f.s

Done == pc = "done"
Is2xx(status) == status >= 200 /\ status <= 299
Non2xxDelivered == res.state = "delivered" /\ ~Is2xx(res.StatusCode)
UnmarshalOps == {"Create", "Read", "ReadAll", "Update"}

HTTPErrorCarriesResponse ==
  err.kind = "HTTPError" =>
    /\ Len(sent) = 1
    /\ err.StatusCode = res.StatusCode
    /\ err.URL = sent[1].url
    /\ err.Body = res.body

\* C1 as stated: Create, Read, ReadAll and Update return an HTTPError if and
\* only if the transport delivered a response with a status outside 200-299,
\* and the HTTPError carries the response's status, the request's URL and
\* the raw response body.
C1_Original ==
  (Done /\ call.op \in UnmarshalOps) =>
    /\ (err.kind = "HTTPError") <=> Non2xxDelivered
    /\ HTTPErrorCarriesResponse

\* C1 as amended: Create, Read, ReadAll and Update return an HTTPError if and
\* only if the transport delivered a response with a status outside 200-299
\* whose body could be read; the HTTPError carries the response's status,
\* the request's URL and the raw response body.  When the body of such a
\* response cannot be read the call returns another error.
C1_HTTPErrorIffNon2xxRead ==
  (Done /\ call.op \in UnmarshalOps) =>
    /\ (err.kind = "HTTPError") <=> (Non2xxDelivered /\ res.readOk)
    /\ (Non2xxDelivered /\ ~res.readOk) => err.kind = "readBody"
    /\ HTTPErrorCarriesResponse

\* Read("9999", &Todo{}) answered with 422
C1_Witness ==
  /\ Done /\ call.op = "Read" /\ call.id = "9999"
  /\ res.StatusCode = 422
  /\ err.kind = "HTTPError"
  /\ err.URL = <<TodoRoot, "/", "9999">>
  /\ err.Body = ObjectBody(PartialTodo)

\* C2: Delete returns an HTTPError whenever the server answers with a
\* non-2xx status; it never returns success for such a response.
C2_DeleteReportsNon2xx ==
  (Done /\ call.op = "Delete" /\ Non2xxDelivered) =>
    /\ err.kind # "nil"
    /\ res.readOk => err.kind = "HTTPError"

\* C3: Delete never changes the record passed to it, whatever the response
\* and whether the call succeeds or fails.
C3_DeleteKeepsRecord ==
  call.op = "Delete" => model = call.model

\* a Delete answered with 200 and a todo that differs from the record
C3_Witness ==
  /\ Done /\ call.op = "Delete"
  /\ res.state = "delivered" /\ res.StatusCode = 200 /\ res.readOk
  /\ res.body = ObjectBody(CreatedTodo)
  /\ call.model = MkModel("Todo", 1, 0, TRUE, Todo(1, Discover, FALSE))
  /\ err.kind = "nil"

\* what the record types answer, written out per type
ExpectedRoot(typ) ==
  CASE typ = "Todo" -> TodoRoot
    [] typ = "ReadmeTodo" -> ReadmeRoot
    [] OTHER -> NameRoot

ExpectedId(m) ==
  CASE m.typ = "Todo" -> Itoa(m.fields[1].n)
    [] m.typ = "ReadmeTodo" -> Flatten(m.fields[3].s)
    [] OTHER -> "name"

EncodingErrors == {"nilModel", "notStruct", "unsupported", "contentType"}
CollectionErrors == {"collection:notPointer", "collection:notSlice", "collection:notModel"}
LocalErrors == EncodingErrors \cup CollectionErrors

\* C5 as stated: a call sends at most one request; exactly one when the
\* local encoding/validation step succeeds, none when it fails.
C5_Original ==
  /\ Len(sent) <= 1
  /\ (Done /\ err.kind \in LocalErrors) => Len(sent) = 0
  /\ (Done /\ err.kind \notin LocalErrors \cup {"panic"}) => Len(sent) = 1

\* C5 as amended: a call sends at most one request, whatever the outcome;
\* exactly one when the local encoding/validation step succeeds and
\* http.NewRequest accepts the URL; none when field encoding or collection
\* validation fails, when the request cannot be built, or when the call
\* panics before sending.
C5_AtMostOneRequest ==
  /\ Len(sent) <= 1
  /\ pc = "waiting" => Len(sent) = 1
  /\ Done => (Len(sent) = 0 <=> err.kind \in LocalErrors \cup {"build", "panic"})

\* a call that sent its one request and failed in decoding the answer
C5_Witness ==
  /\ Done /\ call.op = "Update"
  /\ Len(sent) = 1
  /\ err.kind = "json:syntax"

DiscoverPlus == <<"Discover", "+", "the", "+", "meaning", "+", "of", "+", "life">>
DiscoverPercent == <<"Discover", "%20", "the", "%20", "meaning", "%20", "of", "%20", "life">>

\* records of which the caller set the Title only
OnlyTitleSet ==
  {MkModel("ReadmeTodo", 1, 0, TRUE, ReadmeTodo(Discover, FALSE, <<>>)),
   MkModel("Todo", 1, 0, TRUE, Todo(0, Discover, FALSE))}

\* C6: with URL encoding the body holds only the fields the caller set:
\* Create of a record with only the Title set sends exactly
\* Title=Discover%20the%20meaning%20of%20life (or with "+"), and Update of
\* the record 9fjq293n8fw8 with only IsCompleted set sends exactly
\* IsCompleted=true to <root>/9fjq293n8fw8.
C6_OnlySetFields ==
  /\ (call.op = "Create" /\ call.ct = ContentURLEncoded /\ call.model \in OnlyTitleSet) =>
       /\ Len(sent) = 1
       /\ sent[1].body \in {<<"Title", "=">> \o DiscoverPlus, <<"Title", "=">> \o DiscoverPercent}
  /\ (/\ call.op = "Update" /\ call.ct = ContentURLEncoded
      /\ call.model = MkModel("ReadmeTodo", 1, 0, TRUE, ReadmeTodo(<<>>, TRUE, ReadmeId))) =>
       /\ Len(sent) = 1
       /\ sent[1].body = <<"IsCompleted", "=", "true">>
       /\ sent[1].url = <<ReadmeRoot, "/", "9fjq293n8fw8">>

\* the value of member name of an object, or a default
NumberOf(obj, name, default) ==
  IF \E mem \in obj : mem.name = name /\ mem.kind = "number"
  THEN (CHOOSE mem \in obj : mem.name = name /\ mem.kind = "number").n ELSE default
StringOf(obj, name, default) ==
  IF \E mem \in obj : mem.name = name /\ mem.kind = "string"
  THEN (CHOOSE mem \in obj : mem.name = name /\ mem.kind = "string").s ELSE default
BoolOf(obj, name, default) ==
  IF \E mem \in obj : mem.name = name /\ mem.kind = "bool"
  THEN (CHOOSE mem \in obj : mem.name = name /\ mem.kind = "bool").b ELSE default

\* the test Todo that is deep-equal to a response object
TodoOfObject(obj) ==
  Todo(NumberOf(obj, "Id", 0), StringOf(obj, "Title", <<>>), BoolOf(obj, "IsCompleted", FALSE))

ReadAllSucceeded ==
  Done /\ call.op = "ReadAll" /\ err.kind = "nil" /\ res.body.kind = "array"

\* C8: after a successful ReadAll answered with an N-element array the
\* collection has exactly N elements and element i is deep-equal to the
\* i-th response object, whatever the collection held before.
C8_ReadAllReplaces ==
  (ReadAllSucceeded /\ call.models.elemTyp = "Todo") =>
    /\ models.len = Len(res.body.elems)
    /\ \A i \in 1..Len(res.body.elems) :
         /\ models.arr[i].nilAt = 0
         /\ models.arr[i].fields = TodoOfObject(res.body.elems[i])

\* the targets that are not a pointer to a slice of a type that can answer
\* RootURL()
InvalidTargets ==
  {NoModels,
   MkModels("nonptr", "Todo", 0, FALSE, 0, <<>>),
   MkModels("ptrNonSlice", "Todo", 0, FALSE, 0, <<>>),
   MkModels("ptrSlice", "int", 0, FALSE, 0, <<>>),
   MkModels("ptrSlice", "Model", 0, FALSE, 0, <<>>)}

\* C9: ReadAll returns an error, without crashing and without sending a
\* request, for a nil target, a non-pointer, a pointer to a non-slice, a
\* slice of a type that does not implement Model, and a slice of Model.
C9_ReadAllRejects ==
  (call.op = "ReadAll" /\ call.models \in InvalidTargets) =>
    /\ Done
    /\ err.kind \in CollectionErrors
    /\ sent = <<>>

\* C10: with URL encoding, Create and Update of a nil pointer return the
\* "model was a nil pointer" error instead of crashing, and a record that
\* is not a struct gets the "must be a struct" error.
C10_NilModelError ==
  (call.op \in {"Create", "Update"} /\ call.ct = ContentURLEncoded) =>
    /\ IsNilPointer(call.model) => (Done /\ err.kind = "nilModel")
    /\ (call.model.typ # "" /\ ~IsNilPointer(call.model) /\ ~call.model.struct) =>
         (Done /\ err.kind = "notStruct")

HasHeader(req, name) == \E h \in req.header : h[1] = name

\* C13 as stated: a request sent by Create or Update carries the encoded
\* fields as its body and with them a Content-Type header whose value is the
\* client's encoding strategy, for every record, also one whose fields are
\* all nil pointers or that has no fields; a request of Read or ReadAll has
\* no body and no Content-Type header.
C13_Original ==
  \A i \in 1..Len(sent) :
    /\ call.op \in {"Create", "Update"} =>
         /\ call.ct \in {ContentURLEncoded, ContentJSON}
         /\ sent[i].body = encodeFields(call.ct, call.model).body
         /\ \A h \in {x \in sent[i].header : x[1] = "Content-Type"} : h[2] = call.ct
         /\ HasHeader(sent[i], "Content-Type")
    /\ call.op \in {"Read", "ReadAll"} =>
         sent[i].body = <<>> /\ ~HasHeader(sent[i], "Content-Type")

\* C13 amended: the request of Create or Update carries a Content-Type
\* header exactly when its body is not empty, and then the value is the
\* client's encoding strategy; the request of Read or ReadAll has no body
\* and no Content-Type header.
C13_ContentTypeIffBody ==
  \A i \in 1..Len(sent) :
    /\ call.op \in {"Create", "Update"} =>
         /\ call.ct \in {ContentURLEncoded, ContentJSON}
         /\ sent[i].body = encodeFields(call.ct, call.model).body
         /\ \A h \in {x \in sent[i].header : x[1] = "Content-Type"} : h[2] = call.ct
         /\ HasHeader(sent[i], "Content-Type") <=> sent[i].body # <<>>
    /\ call.op \in {"Read", "ReadAll"} =>
         sent[i].body = <<>> /\ ~HasHeader(sent[i], "Content-Type")

\* a Create of a record whose only field is a nil pointer, URL-encoded
C13_Witness ==
  /\ pc = "waiting" /\ call.op = "Create" /\ call.ct = ContentURLEncoded
  /\ call.model.typ = "Patch"
  /\ sent[1].method = "POST"
  /\ sent[1].body = <<>>
  /\ sent[1].header = {<<"Accept", "application/json">>}

\* C14: every request sent by Create, Read, ReadAll, Update or Delete carries
\* the header Accept: application/json, whatever the encoding strategy.
C14_AcceptHeader ==
  \A i \in 1..Len(sent) : <<"Accept", "application/json">> \in sent[i].header

\* a Create, Read or Update that returned nil
RecordSucceeded ==
  /\ Done
  /\ call.op \in {"Create", "Read", "Update"}
  /\ err.kind = "nil"
  /\ res.state = "delivered"

\* the object has a member for the field
Carries(obj, f) == \E mem \in obj : mem.name = JSONKey(f)

\* the field holds the value the object gives for it
FieldFromObject(f, obj) ==
  \E mem \in obj :
    /\ mem.name = JSONKey(f)
    /\ mem.kind = JSONKindOf(f)
    /\ f.nilAt = 0
    /\ CASE mem.kind = "number" -> f.n = mem.n
          [] mem.kind = "string" -> f.s = mem.s
          [] OTHER -> f.b = mem.b

\* C15 as stated: after a successful Create, Read or Update every field of
\* the caller's record equals the value in the response object; no field
\* keeps a value from before the call.
C15_Original ==
  RecordSucceeded =>
    \A i \in 1..Len(model.fields) : FieldFromObject(model.fields[i], res.body.elems[1])

\* C15 amended: after a successful Create, Read or Update every field that
\* the response object carries equals the object's value, and every field
\* the object does not carry keeps the value it had before the call.
C15_ResponseFieldsOverwrite ==
  RecordSucceeded =>
    /\ res.body.kind = "object"
    /\ Len(model.fields) = Len(call.model.fields)
    /\ \A i \in 1..Len(model.fields) :
         IF Carries(res.body.elems[1], model.fields[i])
         THEN FieldFromObject(model.fields[i], res.body.elems[1])
         ELSE model.fields[i] = call.model.fields[i]

\* an Update answered with an object that carries the Id only: the Id is
\* the server's, Title and IsCompleted are the caller's
C15_Witness ==
  /\ RecordSucceeded
  /\ call.op = "Update"
  /\ call.model = MkModel("Todo", 1, 0, TRUE, Todo(0, Discover, FALSE))
  /\ res.body = ObjectBody(PartialTodo)
  /\ model.fields = Todo(1, Discover, FALSE)

(***************************************************************************)
(* Properties of the test server                                           *)
(***************************************************************************)
\* what the server with its initial list answers to a request
FirstAnswer(req) ==
  CASE req.method = "GET" /\ req.id = <<>> -> ServeIndex(InitialTodos, req).resp
    [] req.method = "POST" -> ServeCreate(InitialTodos, req).resp
    [] req.method = "GET" -> ServeShow(InitialTodos, req).resp
    [] req.method = "PATCH" -> ServeUpdate(InitialTodos, req).resp
    [] req.method = "DELETE" -> ServeDelete(InitialTodos, req).resp
    [] OTHER -> NoResponse

\* the id parameter names one of the todos 0, 1, 2
IdInRange(idStr) == Atoi(idStr).ok /\ Atoi(idStr).n \in 0..2

\* C18: after any sequence of Index, Create, Show, Update and Delete
\* requests the server's list is the same three todos with ids 0, 1, 2, and
\* the response to a request is the one the server gives to that request
\* at its start: a todo that Create answers with has Id 3, and Show, Update
\* and Delete answer 422 for an id outside 0..2.
C18_ServerIdempotent ==
  /\ todos = InitialTodos
  /\ \A i \in 1..Len(todos) : todos[i].Id = i - 1
  /\ srv.req # NoServerRequest =>
       /\ srv.resp = FirstAnswer(srv.req)
       /\ (srv.req.method = "POST" /\ srv.resp.StatusCode = 200) =>
            NumberMember("Id", 3) \in srv.resp.body.elems[1]
       /\ (srv.req.id # <<>> /\ ~IdInRange(srv.req.id)) => srv.resp.StatusCode = 422
       /\ (srv.req.id # <<>> /\ IdInRange(srv.req.id) /\ srv.req.method \in {"GET", "DELETE"}) =>
            srv.resp.StatusCode = 200

\* an Update of todo 1 was answered with the updated copy and the list
\* still holds the old todo 1
C18_Witness ==
  /\ srv.req = ServerRequest("PATCH", <<"1">>,
                 <<"Title", "=", "Updated", "+", "Title", "&", "IsCompleted", "=", "true">>)
  /\ srv.resp = Response("delivered", 200, TRUE,
                  ObjectBody(TodoObject([Id |-> 1, Title |-> <<"Updated", " ", "Title">>,
                                         IsCompleted |-> TRUE])))
  /\ todos[2] = [Id |-> 1, Title |-> <<"Todo ", "1">>, IsCompleted |-> FALSE]

(***************************************************************************)
(* Properties of concurrent calls                                          *)
(***************************************************************************)
\* what the call c ends with when it runs alone on a client whose
\* ContentType is ct and the transport answers r: the request, the error
\* and the target contents of the sequential client
AlonePlan(ct, c) ==
  CASE c.op = "Create" -> CreatePlan(ct, c.model)
    [] c.op = "Update" -> UpdatePlan(ct, c.model)
    [] c.op = "Read" -> ReadPlan(ct, c.id, c.model)
    [] c.op = "ReadAll" -> ReadAllPlan(ct, c.models)
    [] OTHER -> DeletePlan(c.model)

AloneRequest(ct, c) ==
  LET plan == AlonePlan(ct, c) IN
  IF plan.err # "nil" \/ ~URLValid(plan.url) THEN <<>>
  ELSE <<Request(plan.method, plan.url, plan.data, plan.header)>>

AloneResult(ct, c, r) ==
  LET plan == AlonePlan(ct, c) IN
  IF plan.err # "nil" THEN Outcome(Err(plan.err), c.model, c.models)
  ELSE IF ~URLValid(plan.url) THEN Outcome(Err("build"), c.model, c.models)
  ELSE IF c.op = "Delete" THEN DeleteOutcome(r, AloneRequest(ct, c)[1], c.model, c.models)
  ELSE UnmarshalOutcome(c.op, r, AloneRequest(ct, c)[1], c.model, c.models)

\* C17: when goroutines call through one client whose ContentType is not
\* modified, each on its own record or collection, every call sends the
\* request it would send alone and ends with the error and the target
\* contents it would end with alone, given the response to its request.
C17_CallsIndependent ==
  \A t \in Threads :
    /\ th[t].pc \in {"waiting", "done"} => th[t].sent = AloneRequest(ContentType, th[t].call)
    /\ th[t].pc = "done" =>
         LET alone == AloneResult(ContentType, th[t].call, th[t].res) IN
         /\ th[t].err = alone.err
         /\ th[t].model = alone.model
         /\ th[t].models = alone.models

\* a Create and an Update through the same client both ended: each sent its
\* own request, the Create holds the record of its response and the Update,
\* answered 422, holds an HTTPError and its record as it was
C17_Witness ==
  /\ th[1].pc = "done" /\ th[1].call.op = "Create"
  /\ th[2].pc = "done" /\ th[2].call.op = "Update"
  /\ th[1].sent[1].url = <<TodoRoot>>
  /\ th[2].sent[1].url = <<TodoRoot, "/", "1">>
  /\ th[1].sent[1].body # th[2].sent[1].body
  /\ th[1].err.kind = "nil" /\ th[1].model.fields = Todo(3, <<"Test">>, TRUE)
  /\ th[2].err.kind = "HTTPError" /\ th[2].model = UpdatedTodo

\* C19 as stated: the Content-Type header of the request of a Create or
\* Update names the encoding that produced the body, also when another
\* goroutine changes ContentType during the call.
C19_Original ==
  \A t \in Threads :
    (th[t].call.op \in {"Create", "Update"} /\ th[t].sent # <<>> /\ th[t].sent[1].body # <<>>) =>
      /\ th[t].sent[1].body = encodeFields(th[t].call.ct, th[t].call.model).body
      /\ <<"Content-Type", th[t].call.ct>> \in th[t].sent[1].header

\* C19 amended: a Create or Update reads ContentType twice.  The body is the
\* encoding under the value encodeFields read; the Content-Type header
\* names the value read when the header was set; when the two values are
\* the same the request is the one of a call that ran alone.
C19_HeaderNamesSecondRead ==
  \A t \in Threads :
    (th[t].call.op \in {"Create", "Update"} /\ th[t].sent # <<>> /\ th[t].sent[1].body # <<>>) =>
      /\ th[t].sent[1].body = encodeFields(th[t].call.ct, th[t].call.model).body
      /\ {h \in th[t].sent[1].header : h[1] = "Content-Type"} = {<<"Content-Type", th[t].ctSent>>}
      /\ th[t].ctSent = th[t].call.ct => th[t].sent = AloneRequest(th[t].call.ct, th[t].call)

\* a Create encoded its record as a form, ContentType was set to JSON, and
\* the request went out with the form body under Content-Type JSON
C19_Witness ==
  /\ th[1].pc = "waiting" /\ th[1].call.op = "Create"
  /\ th[1].call.ct = ContentURLEncoded
  /\ th[1].ctSent = ContentJSON
  /\ th[1].sent[1].body = urlEncodeFields(NewTodo).body
  /\ <<"Content-Type", ContentJSON>> \in th[1].sent[1].header

====
